---- MODULE Spec2Model ----
(***************************************************************************)
(* school_data.py: load the enrollment CSV into a dense                    *)
(* [year, school, grade] table, resolve the school typed by the user and   *)
(* print the per-school and the general statistics.                        *)
(*                                                                         *)
(* Strings (school names, the typed identifier) are sequences of           *)
(* one-character strings.  A float that holds NaN is the integer NaN;      *)
(* every enrollment count is a natural number.  A mean is kept as the      *)
(* fraction [num, den] numpy divides, den = 0 standing for a NaN mean.     *)
(***************************************************************************)
EXTENDS Integers, Sequences, FiniteSets, TLC

VARIABLES csv, pc, data, years, school_codes, school_names,
          school_input, school_idx, school_name, school_code,
          stats, out, exc

vars == <<csv, pc, data, years, school_codes, school_names,
          school_input, school_idx, school_name, school_code,
          stats, out, exc>>

(***************************************************************************)
(* Values                                                                  *)
(***************************************************************************)
\* np.nan in the float32 table (data.fill(np.nan)); a blank CSV field too.
NaN == -1

\* The largest number of free rows added around the regular rows of the CSV.
MaxExtra == 2

\* An optional value: a local variable that may not be bound yet.
None == <<>>
Some(x) == <<x>>

FirstYear == 2013
\* The report lists range(2013, 2023): ten year lines.
LastListedYear == 2022
\* "Enrollment over 500".
LargeClass == 500

GradeIdx == 1..3

(***************************************************************************)
(* Sequence helpers                                                        *)
(***************************************************************************)
RECURSIVE SumSeq(_)
SumSeq(s) == IF s = <<>> THEN 0 ELSE s[1] + SumSeq(Tail(s))

RECURSIVE Flatten(_)
Flatten(ss) == IF ss = <<>> THEN <<>> ELSE ss[1] \o Flatten(Tail(ss))

Contains(s, x) == \E k \in 1..Len(s) : s[k] = x

\* list.index(x): the first position holding x (x is in s).
IndexOf(s, x) == CHOOSE k \in 1..Len(s) : s[k] = x /\ \A m \in 1..(k-1) : s[m] # x

\* pandas unique() / drop_duplicates(): first occurrences, in order.
RECURSIVE Unique(_)
Unique(s) ==
    IF s = <<>> THEN <<>>
    ELSE LET rest == Unique(SubSeq(s, 1, Len(s) - 1))
             x == s[Len(s)]
         IN IF Contains(rest, x) THEN rest ELSE Append(rest, x)

\* sorted(): the ascending arrangement of a sequence of integers.
RECURSIVE Insert(_, _)
Insert(s, x) ==
    IF s = <<>> THEN <<x>>
    ELSE IF x <= s[1] THEN <<x>> \o s
    ELSE <<s[1]>> \o Insert(Tail(s), x)

RECURSIVE Sorted(_)
Sorted(s) == IF s = <<>> THEN <<>> ELSE Insert(Sorted(Tail(s)), s[1])

(***************************************************************************)
(* load_school_data                                                        *)
(***************************************************************************)
Column(df, f) == [k \in 1..Len(df) |-> df[k][f]]

\* sorted(df['School Code'].unique())
SchoolCodes(df) == Sorted(Unique(Column(df, "code")))

\* A faulty variant: the years in the order they first appear in the file.
YearsUnsorted(df) == Unique(Column(df, "year"))

\* A faulty variant: every calendar year from the first to the last one of the file.
YearsRange(df) ==
    LET ys == Sorted(Unique(Column(df, "year")))
    IN [k \in 1..(ys[Len(ys)] - ys[1] + 1) |-> ys[1] + k - 1]

\* sorted(df['School Year'].unique())
Years(df) == Sorted(Unique(Column(df, "year")))

\* df[['School Code','School Name']].drop_duplicates().set_index(...).to_dict():
\* a dict keeps the position of a key's first insertion and its last value.
RECURSIVE DictOf(_)
DictOf(pairs) ==
    IF pairs = <<>> THEN <<>>
    ELSE LET d == DictOf(SubSeq(pairs, 1, Len(pairs) - 1))
             p == pairs[Len(pairs)]
         IN IF \E k \in 1..Len(d) : d[k].code = p.code
            THEN [k \in 1..Len(d) |-> IF d[k].code = p.code THEN p ELSE d[k]]
            ELSE Append(d, p)

SchoolNames(df) ==
    DictOf(Unique([k \in 1..Len(df) |-> [code |-> df[k].code, name |-> df[k].name]]))

\* A faulty variant: the rows of the year, whatever their school.
YearlyDataAnySchool(df, year, code) == SelectSeq(df, LAMBDA r : r.year = year)

\* df[(df['School Year'] == year) & (df['School Code'] == code)]
YearlyData(df, year, code) ==
    SelectSeq(df, LAMBDA r : r.year = year /\ r.code = code)

\* The filled array: NaN everywhere, then the first matching row's counts.
LoadData(df) ==
    LET ys == Years(df)
        cs == SchoolCodes(df)
    IN [i \in 1..Len(ys) |->
          [j \in 1..Len(cs) |->
             LET yearly_data == YearlyData(df, ys[i], cs[j])
             IN IF yearly_data # <<>> THEN yearly_data[1].g
                ELSE <<NaN, NaN, NaN>>]]

(***************************************************************************)
(* numpy reductions                                                        *)
(***************************************************************************)
NotNan(s) == SelectSeq(s, LAMBDA x : x # NaN)

\* np.nansum: NaN counts as nothing; the sum of no value is 0.
NanSum(s) == SumSeq(NotNan(s))

\* np.nanmean: the non-NaN sum over the non-NaN count; NaN (den = 0) if none.
NanMean(s) == [num |-> NanSum(s), den |-> Len(NotNan(s))]

IsNanMean(m) == m.den = 0

\* np.nanmax / np.nanmin: NaN (with a warning) when every value is NaN.
NanMax(s) ==
    IF NotNan(s) = <<>> THEN NaN
    ELSE CHOOSE x \in {s[k] : k \in 1..Len(s)} \ {NaN} :
            \A k \in 1..Len(s) : s[k] # NaN => s[k] <= x

NanMin(s) ==
    IF NotNan(s) = <<>> THEN NaN
    ELSE CHOOSE x \in {s[k] : k \in 1..Len(s)} \ {NaN} :
            \A k \in 1..Len(s) : s[k] # NaN => x <= s[k]

\* np.median of a non-empty array: the middle of the sorted values, the mean
\* of the two middle ones when their number is even.
Median(s) ==
    LET srt == Sorted(s)
        n == Len(s)
    IN IF n % 2 = 1 THEN [num |-> srt[(n + 1) \div 2], den |-> 1]
       ELSE [num |-> srt[n \div 2] + srt[n \div 2 + 1], den |-> 2]

\* int(x) of a non-negative float that is not NaN: truncation.
IntOf(m) == m.num \div m.den

(***************************************************************************)
(* print_school_statistics: the values computed before anything is printed *)
(***************************************************************************)
\* data[:, school_idx, :]  (school_idx counts from 1 here, from 0 in Python)
SchoolData(d, idx) == [i \in 1..Len(d) |-> d[i][idx]]

GradeColumn(sd, g) == [i \in 1..Len(sd) |-> sd[i][g]]

\* A faulty variant: np.mean of the column with the missing cells read as zero.
MeanEnrollmentsZeroFilled(sd) ==
    [g \in GradeIdx |-> [num |-> NanSum(GradeColumn(sd, g)), den |-> Len(sd)]]

\* np.nanmean(school_data, axis=0)
MeanEnrollments(sd) == [g \in GradeIdx |-> NanMean(GradeColumn(sd, g))]

\* np.nanmax(school_data), np.nanmin(school_data)
MaxEnrollment(sd) == NanMax(Flatten(sd))
MinEnrollment(sd) == NanMin(Flatten(sd))

\* np.nansum(school_data, axis=1): a year without data totals 0, not NaN.
TotalEnrollmentPerYear(sd) == [i \in 1..Len(sd) |-> NanSum(sd[i])]

\* A faulty variant: the total of the first nine years only.
TotalTenYearShort(totals) == NanSum(SubSeq(totals, 1, Len(totals) - 1))

\* np.nansum(total_enrollment_per_year)
TotalTenYear(totals) == NanSum(totals)

\* np.nanmean(total_enrollment_per_year)
MeanYearly(totals) == NanMean(totals)

\* A faulty variant: the cells of at least 500.
LargeClassesInclusive(sd) ==
    SelectSeq(Flatten(sd), LAMBDA x : x # NaN /\ x >= LargeClass)

\* school_data[school_data > 500]: a comparison with NaN is False.
LargeClasses(sd) == SelectSeq(Flatten(sd), LAMBDA x : x # NaN /\ x > LargeClass)

\* np.median(large_classes) if large_classes.size > 0 else None
MedianLargeClasses(lc) == IF Len(lc) > 0 THEN Some(Median(lc)) ELSE None

SchoolStatistics(d, idx) ==
    LET sd == SchoolData(d, idx)
        totals == TotalEnrollmentPerYear(sd)
        lc == LargeClasses(sd)
    IN [school_data |-> sd,
        mean_enrollments |-> MeanEnrollments(sd),
        max_enrollment |-> MaxEnrollment(sd),
        min_enrollment |-> MinEnrollment(sd),
        total_enrollment_per_year |-> totals,
        total_ten_year |-> TotalTenYear(totals),
        mean_yearly |-> MeanYearly(totals),
        large_classes |-> lc,
        median_large_classes |-> MedianLargeClasses(lc)]

(***************************************************************************)
(* Printing.  A report is a sequence of print statements run in order;     *)
(* the f-string of a statement is evaluated before it prints, so the one   *)
(* that raises prints nothing and ends the report.                         *)
(***************************************************************************)
Line(k, y, v) == [k |-> k, y |-> y, s |-> <<>>, v |-> v]
NameLine(k, name, code) == [k |-> k, y |-> 0, s |-> name, v |-> code]

Prints(line) == [line |-> line, raise |-> "", msg |-> ""]
Raises(type, msg) == [line |-> Line("", 0, 0), raise |-> type, msg |-> msg]

\* int(x) inside an f-string: int(float('nan')) raises ValueError.
PrintInt(k, y, x) ==
    IF x = NaN THEN Raises("ValueError", "cannot convert float NaN to integer")
    ELSE Prints(Line(k, y, x))

PrintIntOfMean(k, m) ==
    IF IsNanMean(m) THEN Raises("ValueError", "cannot convert float NaN to integer")
    ELSE Prints(Line(k, 0, IntOf(m)))

\* total_enrollment_per_year[i] for the i-th listed year.
PrintYearTotal(totals, i) ==
    IF i > Len(totals)
    THEN Raises("IndexError", "index out of bounds for axis 0")
    ELSE Prints(Line("Total enrollment for", FirstYear + i - 1, totals[i]))

\* The position of the first statement that raises, 0 if none does.
FirstRaise(stmts) ==
    IF \E k \in 1..Len(stmts) : stmts[k].raise # ""
    THEN CHOOSE k \in 1..Len(stmts) :
            stmts[k].raise # "" /\ \A m \in 1..(k - 1) : stmts[m].raise = ""
    ELSE 0

Printed(stmts) ==
    LET n == IF FirstRaise(stmts) = 0 THEN Len(stmts) ELSE FirstRaise(stmts) - 1
    IN [k \in 1..n |-> stmts[k].line]

Raised(stmts) ==
    IF FirstRaise(stmts) = 0 THEN [type |-> "", msg |-> ""]
    ELSE [type |-> stmts[FirstRaise(stmts)].raise, msg |-> stmts[FirstRaise(stmts)].msg]

NoException == [type |-> "", msg |-> ""]

\* The print statements of print_school_statistics.
SchoolReport(st, name, code) ==
    << Prints(NameLine("School Name, School Code", name, code)),
       PrintIntOfMean("Mean Enrollment for Grade 10", st.mean_enrollments[1]),
       PrintIntOfMean("Mean Enrollment for Grade 11", st.mean_enrollments[2]),
       PrintIntOfMean("Mean Enrollment for Grade 12", st.mean_enrollments[3]),
       PrintInt("Highest Enrollment for a single Grade", 0, st.max_enrollment),
       PrintInt("Lowest Enrollment for a single Grade", 0, st.min_enrollment) >>
    \o [i \in 1..(LastListedYear - FirstYear + 1) |->
          PrintYearTotal(st.total_enrollment_per_year, i)]
    \o << PrintInt("Total Ten Year Enrollment", 0, st.total_ten_year),
          PrintIntOfMean("Mean Total Yearly Enrollment Over 10 Years", st.mean_yearly),
          IF st.median_large_classes # None
          THEN PrintIntOfMean("For all enrollments over 500, the median value was",
                              st.median_large_classes[1])
          ELSE Prints(Line("No enrollments over 500", 0, 0)) >>

(***************************************************************************)
(* print_general_statistics                                                *)
(***************************************************************************)
\* data[0, :, :] and data[-1, :, :], flattened
YearCells(d, i) == Flatten(d[i])

\* np.nansum(data[-1, :, 2])
TotalGrads(d) == NanSum([j \in 1..Len(d[Len(d)]) |-> d[Len(d)][j][3]])

AllCells(d) == Flatten([i \in 1..Len(d) |-> Flatten(d[i])])

\* The most negative integer stands for what the cast of a NaN float gives on
\* a platform that saturates; other platforms give 0.
MinInt == -2147483647
NanAsInt == {MinInt, 0}

\* np.float32.astype(int) raises nothing: a NaN mean prints u, a value the
\* platform chooses.
PrintAsType(k, m, u) ==
    IF IsNanMean(m) THEN Prints(Line(k, 0, u)) ELSE Prints(Line(k, 0, IntOf(m)))

GeneralReport(d, u1, u2) ==
    << PrintAsType("Mean Enrollment in 2013", NanMean(YearCells(d, 1)), u1),
       PrintAsType("Mean Enrollment in 2022", NanMean(YearCells(d, Len(d))), u2),
       PrintInt("Total Graduating Class of 2022", 0, TotalGrads(d)),
       PrintInt("Highest Enrollment for a Single Grade", 0, NanMax(AllCells(d))),
       PrintInt("Lowest Enrollment for a Single Grade", 0, NanMin(AllCells(d))) >>

(***************************************************************************)
(* main: the selection of the school                                       *)
(***************************************************************************)
\* The character SUPERSCRIPT TWO: a digit for str.isdigit(), not a decimal.
SuperscriptTwo == "sup2"

DecimalChars == <<"0", "1", "2", "3", "4", "5", "6", "7", "8", "9">>

IsDecimalChar(c) == Contains(DecimalChars, c)
IsDigitChar(c) == IsDecimalChar(c) \/ c = SuperscriptTwo

\* str.isdigit(): at least one character and every character a digit.
IsDigit(s) == s # <<>> /\ \A k \in 1..Len(s) : IsDigitChar(s[k])

\* int(s) of a string of decimal characters.
RECURSIVE IntValue(_)
IntValue(s) ==
    IF s = <<>> THEN 0
    ELSE 10 * IntValue(SubSeq(s, 1, Len(s) - 1)) + (IndexOf(DecimalChars, s[Len(s)]) - 1)

\* int(s) of a string str.isdigit() accepts: it raises ValueError on a digit
\* that is not a decimal.
IntRaises(s) == \E k \in 1..Len(s) : ~IsDecimalChar(s[k])

NameValues(names) == [k \in 1..Len(names) |-> names[k].name]
NameKeys(names) == [k \in 1..Len(names) |-> names[k].code]

\* school_names[code]
NameOfCode(names, code) == names[IndexOf(NameKeys(names), code)].name

Unselected == [idx |-> None, name |-> None, code |-> None]

\* The branch of an input str.isdigit() accepts: school_code is never bound.
SelectByCode(s, codes, names) ==
    IF IntRaises(s)
    THEN [sel |-> Unselected,
          exc |-> [type |-> "ValueError", msg |-> "invalid literal for int() with base 10"]]
    ELSE IF Contains(codes, IntValue(s))
    THEN [sel |-> [idx |-> Some(IndexOf(codes, IntValue(s))),
                   name |-> Some(NameOfCode(names, IntValue(s))),
                   code |-> None],
          exc |-> NoException]
    ELSE [sel |-> Unselected,
          exc |-> [type |-> "ValueError", msg |-> "School code not found."]]

\* The branch of any other input: the first key whose name is the input.
SelectByName(s, codes, names) ==
    IF Contains(NameValues(names), s)
    THEN LET code == NameKeys(names)[IndexOf(NameValues(names), s)]
         IN [sel |-> [idx |-> Some(IndexOf(codes, code)),
                      name |-> Some(s),
                      code |-> Some(code)],
             exc |-> NoException]
    ELSE [sel |-> Unselected,
          exc |-> [type |-> "ValueError", msg |-> "School name not found."]]

Select(s, codes, names) ==
    IF IsDigit(s) THEN SelectByCode(s, codes, names) ELSE SelectByName(s, codes, names)

(***************************************************************************)
(* The CSV files and the typed identifiers the model runs the program on   *)
(***************************************************************************)
\* Two schools; the name of each (one name per code).
Codes == {7, 12}
NameOf(code) == IF code = 12 THEN <<"b", "c">> ELSE <<"a">>

Row(y, c, grades) == [year |-> y, code |-> c, name |-> NameOf(c), g |-> grades]

\* The regular rows: school 12 has one row a year from 2013 on, with a
\* grade 10 that passes 500 in the fourth year.
RegularRow(y) == Row(y, 12, <<490 + 5 * (y - FirstYear), 500, 300 + (y - FirstYear)>>)
Regular(n) == [k \in 1..n |-> RegularRow(FirstYear + k - 1)]

\* Nine or ten years of regular rows.
RegularLens == {LastListedYear - FirstYear, LastListedYear - FirstYear + 1}

\* The free rows: school 7 in the first year or in the year after the last
\* listed one, school 12 in that later year; complete counts with no large
\* class, blank counts, or a blank grade 10.
ExtraGrades == {<<450, 500, 400>>, <<NaN, NaN, NaN>>, <<NaN, 700, 100>>}
ExtraRows ==
    {Row(key[1], key[2], t) :
        key \in {<<FirstYear, 7>>, <<LastListedYear + 1, 7>>, <<LastListedYear + 1, 12>>},
        t \in ExtraGrades}

RECURSIVE SeqsUpTo(_, _)
SeqsUpTo(S, n) ==
    IF n = 0 THEN {<<>>}
    ELSE LET shorter == SeqsUpTo(S, n - 1)
         IN shorter \cup {Append(q, x) : q \in {r \in shorter : Len(r) = n - 1}, x \in S}

\* Free rows before and after the regular ones, MaxExtra of them at most.
CsvFiles ==
    {f[1] \o Regular(n) \o f[2] :
        n \in RegularLens,
        f \in {q \in SeqsUpTo(ExtraRows, MaxExtra) \X SeqsUpTo(ExtraRows, MaxExtra) :
                  Len(q[1]) + Len(q[2]) <= MaxExtra}}

\* What the user may type: codes present or not, a signed number, a digit
\* int() rejects, names present or not, nothing.
Inputs ==
    { <<"7">>, <<"1", "2">>, <<"2">>, <<"-", "7">>, <<SuperscriptTwo>>,
      <<"a">>, <<"b", "c">>, <<"c">>, <<>> }

(***************************************************************************)
(* The program                                                             *)
(***************************************************************************)
Init ==
    /\ csv \in CsvFiles
    /\ pc = "load"
    /\ data = <<>>
    /\ years = <<>>
    /\ school_codes = <<>>
    /\ school_names = <<>>
    /\ school_input = <<>>
    /\ school_idx = None
    /\ school_name = None
    /\ school_code = None
    /\ stats = None
    /\ out = <<>>
    /\ exc = NoException

\* main, line 105: data, school_codes, school_names = load_school_data()
load_school_data ==
    /\ pc = "load"
    /\ data' = LoadData(csv)
    /\ years' = Years(csv)
    /\ school_codes' = SchoolCodes(csv)
    /\ school_names' = SchoolNames(csv)
    /\ pc' = "input"
    /\ UNCHANGED <<csv, school_input, school_idx, school_name, school_code,
                   stats, out, exc>>

\* main, line 106: school_input = input(...)
input ==
    /\ pc = "input"
    /\ \E s \in Inputs : school_input' = s
    /\ pc' = "try"
    /\ UNCHANGED <<csv, data, years, school_codes, school_names,
                   school_idx, school_name, school_code, stats, out, exc>>

\* The result of a branch of the selection: the locals it binds, or the
\* ValueError it raises into the except clause.
Selected(r) ==
    /\ school_idx' = r.sel.idx
    /\ school_name' = r.sel.name
    /\ school_code' = r.sel.code
    /\ exc' = r.exc
    /\ pc' = IF r.exc.type = "" THEN "part2" ELSE "except"
    /\ UNCHANGED <<csv, data, years, school_codes, school_names, school_input,
                   stats, out>>

\* main, lines 108-114
select_by_code ==
    /\ pc = "try"
    /\ IsDigit(school_input)
    /\ Selected(SelectByCode(school_input, school_codes, school_names))

\* main, lines 115-122
select_by_name ==
    /\ pc = "try"
    /\ ~IsDigit(school_input)
    /\ Selected(SelectByName(school_input, school_codes, school_names))

\* Where a report that raised leaves main: a ValueError goes to the except
\* clause, any other exception ends the program with a traceback.
AfterReport(stmts, next) ==
    IF Raised(stmts).type = "" THEN next
    ELSE IF Raised(stmts).type = "ValueError" THEN "except"
    ELSE "crashed"

\* main, lines 124-125: the header, then the call; the argument school_code
\* is read before the call and is unbound after the code branch.
print_school_statistics ==
    /\ pc = "part2"
    /\ IF school_code = None
       THEN /\ out' = Append(out, Line("***Requested School Statistics***", 0, 0))
            /\ exc' = [type |-> "UnboundLocalError",
                       msg |-> "local variable 'school_code' referenced before assignment"]
            /\ pc' = "crashed"
            /\ UNCHANGED stats
       ELSE LET st == SchoolStatistics(data, school_idx[1])
                stmts == SchoolReport(st, school_name[1], school_code[1])
            IN /\ stats' = Some(st)
               /\ out' = Append(out, Line("***Requested School Statistics***", 0, 0))
                            \o Printed(stmts)
               /\ exc' = Raised(stmts)
               /\ pc' = AfterReport(stmts, "part3")
    /\ UNCHANGED <<csv, data, years, school_codes, school_names, school_input,
                   school_idx, school_name, school_code>>

\* main, lines 127-128
print_general_statistics ==
    /\ pc = "part3"
    /\ \E u1 \in NanAsInt, u2 \in NanAsInt :
          LET stmts == GeneralReport(data, u1, u2)
          IN /\ out' = Append(out, Line("***General Statistics for All Schools***", 0, 0))
                          \o Printed(stmts)
             /\ exc' = Raised(stmts)
             /\ pc' = AfterReport(stmts, "done")
    /\ UNCHANGED <<csv, data, years, school_codes, school_names, school_input,
                   school_idx, school_name, school_code, stats>>

\* main, lines 129-130: except ValueError as e: print(e)
except_value_error ==
    /\ pc = "except"
    /\ out' = Append(out, Line(exc.msg, 0, 0))
    /\ exc' = NoException
    /\ pc' = "done"
    /\ UNCHANGED <<csv, data, years, school_codes, school_names, school_input,
                   school_idx, school_name, school_code, stats>>

Next ==
    \/ load_school_data
    \/ input
    \/ select_by_code
    \/ select_by_name
    \/ print_school_statistics
    \/ print_general_statistics
    \/ except_value_error

Spec == Init /\ [][Next]_vars

(***************************************************************************)
(* Properties                                                              *)
(***************************************************************************)
Loaded == pc # "load"
Ended == pc \in {"done", "crashed"}

\* The decimal text of a natural number, as a user types a school code.
RECURSIVE Str(_)
Str(n) ==
    IF n < 10 THEN <<DecimalChars[n + 1]>>
    ELSE Str(n \div 10) \o <<DecimalChars[(n % 10) + 1]>>

\* int(s) accepts s: an optional sign, then decimal characters only.
Unsigned(s) == IF s # <<>> /\ s[1] \in {"-", "+"} THEN Tail(s) ELSE s
ParsesAsInt(s) ==
    /\ Unsigned(s) # <<>>
    /\ \A k \in 1..Len(Unsigned(s)) : IsDecimalChar(Unsigned(s)[k])
ParsedInt(s) ==
    IF s[1] = "-" THEN 0 - IntValue(Unsigned(s)) ELSE IntValue(Unsigned(s))

\* The positions of the CSV rows of a year and a school.
RowsOf(y, c) == {k \in 1..Len(csv) : csv[k].year = y /\ csv[k].code = c}

Blank == <<NaN, NaN, NaN>>

HasLine(k) == \E n \in 1..Len(out) : out[n].k = k

\* The sum of f over the positions 1..n that are in S.
SumAt(f, S) == SumSeq([i \in 1..Len(f) |-> IF i \in S THEN f[i] ELSE 0])

\* C1: for every school code of the loaded data, the selection of main() on
\* the code typed as a number and on that code's school name both succeed
\* and bind the same (index, name, code), the one of that school.
C1_CodeAndNameSelectAlike ==
    \A j \in 1..Len(school_codes) :
       (/\ pc \notin {"load", "input", "try"}
        /\ school_input \in {Str(school_codes[j]),
                             NameOfCode(school_names, school_codes[j])})
       => /\ pc # "except"
          /\ school_idx = Some(j)
          /\ school_name = Some(NameOfCode(school_names, school_codes[j]))
          /\ school_code = Some(school_codes[j])

\* C2: a run that reached the prompt ends normally, with the per-school
\* section followed by the general section, both complete, or with only the
\* code message, or with only the name message.
C2_ThreeOutcomes ==
    Ended =>
      /\ pc = "done"
      /\ \/ out = <<Line("School code not found.", 0, 0)>>
         \/ out = <<Line("School name not found.", 0, 0)>>
         \/ /\ stats # None
            /\ Len(out) = 2 + (6 + (LastListedYear - FirstYear + 1) + 3) + 5
            /\ out[1].k = "***Requested School Statistics***"
            /\ out[Len(out) - 5].k = "***General Statistics for All Schools***"
            /\ out[Len(out)].k = "Lowest Enrollment for a Single Grade"

\* C3: an input that parses as an integer, signed or not, and is no school
\* code ends with the code message; an input that does not parse as an
\* integer and is no school name ends with the name message.
C3_MessageByIntegerParse ==
    Ended =>
      /\ (ParsesAsInt(school_input) /\ ~Contains(school_codes, ParsedInt(school_input)))
            => out = <<Line("School code not found.", 0, 0)>>
      /\ (~ParsesAsInt(school_input) /\ ~Contains(NameValues(school_names), school_input))
            => out = <<Line("School name not found.", 0, 0)>>

\* C4 as stated: the cells of [i, j] are the counts of a row of year i and
\* school j if there is one, and are all missing if and only if there is none.
C4_MissingIffNoRow ==
    Loaded =>
      \A i \in 1..Len(years), j \in 1..Len(school_codes) :
         LET rows == RowsOf(years[i], school_codes[j])
         IN /\ rows # {} => \E k \in rows : data[i][j] = csv[k].g
            /\ data[i][j] = Blank <=> rows = {}

\* C4, amended: the cells of [i, j] are the counts of a row of year i and
\* school j if there is one (a blank count being a missing cell) and are all
\* missing if there is none; they are all missing only if there is no such
\* row or such a row has three blank counts.
C4_CellsFromMatchingRow ==
    Loaded =>
      /\ Len(data) = Len(years)
      /\ \A i \in 1..Len(years) : Len(data[i]) = Len(school_codes)
      /\ \A i \in 1..Len(years), j \in 1..Len(school_codes) :
            LET rows == RowsOf(years[i], school_codes[j])
            IN /\ rows # {} => \E k \in rows : data[i][j] = csv[k].g
               /\ rows = {} => data[i][j] = Blank
               /\ data[i][j] = Blank => (rows = {} \/ \E k \in rows : csv[k].g = Blank)

C4_Witness ==
    /\ Loaded
    /\ \E i \in 1..Len(years), j \in 1..Len(school_codes) :
          RowsOf(years[i], school_codes[j]) = {} /\ data[i][j] = Blank
    /\ \E i \in 1..Len(years), j \in 1..Len(school_codes) :
          Cardinality(RowsOf(years[i], school_codes[j])) > 1 /\ data[i][j] # Blank

\* The years in which the selected school has data.
YearsWithData == {i \in 1..Len(data) : data[i][school_idx[1]] # Blank}

\* C5: the mean total yearly enrollment the report prints is the sum of the
\* totals of the years that have data over the number of those years.
C5_MeanYearlySkipsMissingYears ==
    (/\ stats # None
     /\ HasLine("Mean Total Yearly Enrollment Over 10 Years")
     /\ YearsWithData # {})
    => stats[1].mean_yearly.num * Cardinality(YearsWithData)
          = SumAt(stats[1].total_enrollment_per_year, YearsWithData)
               * stats[1].mean_yearly.den

\* The years in which the selected school has a count for grade g.
Present(g) == {i \in 1..Len(data) : data[i][school_idx[1]][g] # NaN}

\* C6: the mean of a grade is the sum of the school's non-missing cells of
\* the grade over their number.
C6_GradeMeanOverPresentCells ==
    stats # None =>
      \A g \in GradeIdx :
         /\ stats[1].mean_enrollments[g].den = Cardinality(Present(g))
         /\ stats[1].mean_enrollments[g].num
               = SumAt([i \in 1..Len(data) |-> data[i][school_idx[1]][g]], Present(g))

C6_Witness ==
    /\ stats # None
    /\ HasLine("Mean Enrollment for Grade 12")
    /\ \E g \in GradeIdx : Present(g) # {} /\ Present(g) # 1..Len(data)
    /\ Present(1) # Present(2)

ListedYears == LastListedYear - FirstYear + 1

\* The sum of the per-year totals the report lists.
RECURSIVE SumOfYearLines(_)
SumOfYearLines(lines) ==
    IF lines = <<>> THEN 0
    ELSE (IF lines[1].k = "Total enrollment for" THEN lines[1].v ELSE 0)
         + SumOfYearLines(Tail(lines))

LargeCells ==
    {c \in (1..Len(data)) \X GradeIdx :
        data[c[1]][school_idx[1]][c[2]] # NaN /\ data[c[1]][school_idx[1]][c[2]] > LargeClass}

\* x is the k-th smallest value of s.
IsKth(s, x, k) ==
    /\ \E n \in 1..Len(s) : s[n] = x
    /\ Cardinality({n \in 1..Len(s) : s[n] < x}) < k
    /\ Cardinality({n \in 1..Len(s) : s[n] <= x}) >= k

IsMedian(s, m) ==
    IF Len(s) % 2 = 1
    THEN m.den = 1 /\ IsKth(s, m.num, (Len(s) + 1) \div 2)
    ELSE /\ m.den = 2
         /\ \E a \in 1..Len(s), b \in 1..Len(s) :
               /\ IsKth(s, s[a], Len(s) \div 2)
               /\ IsKth(s, s[b], Len(s) \div 2 + 1)
               /\ m.num = s[a] + s[b]

LatestYear ==
    CHOOSE y \in {csv[k].year : k \in 1..Len(csv)} :
       \A k \in 1..Len(csv) : csv[k].year <= y

\* The grade 12 count of a school in the latest year: that of its first row
\* of that year, nothing if it has no such row or the count is blank.
Grade12Latest(c) ==
    IF RowsOf(LatestYear, c) = {} THEN 0
    ELSE LET first == CHOOSE k \in RowsOf(LatestYear, c) :
                         \A m \in RowsOf(LatestYear, c) : k <= m
         IN IF csv[first].g[3] = NaN THEN 0 ELSE csv[first].g[3]

RECURSIVE SumGrade12(_)
SumGrade12(S) ==
    IF S = {} THEN 0
    ELSE LET c == CHOOSE x \in S : TRUE
         IN Grade12Latest(c) + SumGrade12(S \ {c})

\* C9: the printed total graduating class is the sum over the schools of the
\* grade 12 count of the latest calendar year of the source, whatever the
\* order of the rows.
C9_TotalGradsOfLatestYear ==
    \A n \in 1..Len(out) :
       out[n].k = "Total Graduating Class of 2022"
       => out[n].v = SumGrade12({csv[k].code : k \in 1..Len(csv)})

C9_Witness ==
    /\ HasLine("Total Graduating Class of 2022")
    /\ csv[Len(csv)].year # LatestYear
    /\ csv[1].year = LatestYear
    /\ \E j \in 1..Len(school_codes) : RowsOf(LatestYear, school_codes[j]) = {}
    /\ SumGrade12({csv[k].code : k \in 1..Len(csv)}) > 0

AllRowsComplete == \A k \in 1..Len(csv), g \in GradeIdx : csv[k].g[g] # NaN

Complete(cell) == \A g \in GradeIdx : cell[g] # NaN

\* C10: when every source row carries its three counts, every school has a
\* year with data and every year has a school with data, so that no mean,
\* maximum or minimum of the two reports is taken over missing cells only.
C10_NoAllMissingSlice ==
    (Loaded /\ AllRowsComplete) =>
      /\ \A j \in 1..Len(school_codes) : \E i \in 1..Len(years) : Complete(data[i][j])
      /\ \A i \in 1..Len(years) : \E j \in 1..Len(school_codes) : Complete(data[i][j])
      /\ ~IsNanMean(NanMean(YearCells(data, 1)))
      /\ ~IsNanMean(NanMean(YearCells(data, Len(data))))
      /\ NanMax(AllCells(data)) # NaN /\ NanMin(AllCells(data)) # NaN
      /\ stats # None =>
            /\ \A g \in GradeIdx : ~IsNanMean(stats[1].mean_enrollments[g])
            /\ stats[1].max_enrollment # NaN
            /\ stats[1].min_enrollment # NaN
      /\ exc.msg # "cannot convert float NaN to integer"

C10_Witness ==
    /\ AllRowsComplete
    /\ pc = "done"
    /\ stats # None
    /\ \E i \in 1..Len(years), j \in 1..Len(school_codes) : data[i][j] = Blank
    /\ Len(school_codes) > 1

====
